---- MODULE Spec2Model ----
(***************************************************************************)
(* Macro expansion queries of ra_hir_expand (crates/ra_hir_expand/src/     *)
(* db.rs): macro_arg, macro_def, macro_expand, parse_macro,                *)
(* parse_or_expand, ast_id_map and expand_hypothetical, run against a      *)
(* database whose memoized query tables are part of the state.             *)
(***************************************************************************)
EXTENDS Integers, Sequences, FiniteSets, TLC

\* Hard limit of the expanded token tree (db.rs, macro_expand_with_arg).
TokenLimit == 65536

\* Longest argument region (in syntax tokens) the model draws.
MaxArgLen == 2

\* Largest token id the id mappings are applied to.
MaxTokenId == 5

\* Most items of a source file the merge_imports assist is run on.
MaxItems == 3

VARIABLES
    loc,        \* interned MacroCallLoc of every lazy call id
    eager,      \* interned EagerCallLoc of every eager call id
    defs,       \* the macro definitions, by MacroDefId
    memo,       \* the memoized query tables of AstDatabase
    op,         \* the operation that ran last, with its inputs
    res,        \* what it returned
    panicked,   \* whether it unwound with a panic instead of returning
    log,        \* the warnings it logged
    invoked,    \* the queries and expanders it invoked
    seen        \* per call id, the first result macro_expand returned

vars == <<loc, eager, defs, memo, op, res, panicked, log, invoked, seen>>

----------------------------------------------------------------------------
\* Option<T>: None is the empty tuple, Some(v) the one-element tuple.

None == <<>>

Some(v) == <<v>>

IsSome(o) == o # <<>>

Unwrap(o) == o[1]

----------------------------------------------------------------------------
\* Identifiers.

LazyIds == {"L1", "L2"}

EagerIds == {"E1"}

\* MacroCallId: LazyMacro(id) or EagerMacro(id).
CallIds == LazyIds \cup EagerIds

IsLazy(id) == id \in LazyIds

DefIds == {"D1", "D2"}

RealFile == "F"

\* HirFileId: FileId(file) or MacroFile(call).
FileIds == {RealFile} \cup CallIds

\* FragmentKind, as far as to_fragment_kind produces it.
FragmentKinds == {"Items", "Expr"}

\* The parent kinds to_fragment_kind maps to Items.
ItemParents == {"MACRO_ITEMS", "SOURCE_FILE", "ITEM_LIST"}

\* The parent kinds to_fragment_kind maps to Expr.
ExprParents ==
    {"LET_STMT", "EXPR_STMT", "BLOCK", "ARG_LIST", "TRY_EXPR", "TUPLE_EXPR",
     "PAREN_EXPR", "FOR_EXPR", "PATH_EXPR", "LAMBDA_EXPR", "CONDITION",
     "BREAK_EXPR", "RETURN_EXPR", "BLOCK_EXPR", "MATCH_EXPR", "MATCH_ARM",
     "MATCH_GUARD", "RECORD_FIELD", "CALL_EXPR", "INDEX_EXPR",
     "METHOD_CALL_EXPR", "AWAIT_EXPR", "CAST_EXPR", "REF_EXPR", "PREFIX_EXPR",
     "RANGE_EXPR", "BIN_EXPR"}

\* Parent kinds outside the table of to_fragment_kind.
OtherParents == {"MACRO_STMTS", "TYPE_ARG", "PLACEHOLDER_PAT"}

\* The call node is the root of its tree.
NoParent == "NONE"

ParentKinds == ItemParents \cup ExprParents \cup OtherParents \cup {NoParent}

\* Kinds of syntax tokens; WHITESPACE is trivia and gets no token id.
TokKinds == {"IDENT", "INT_NUMBER"}

Trivia == "WHITESPACE"

----------------------------------------------------------------------------
\* Syntax of an argument region and its token tree.

\* The tokens of an argument region of n tokens: unit-width tokens of
\* alternating kinds, the first one trivia when ws.
ArgToks(n, ws) ==
    [i \in 1..n |-> IF ws /\ i = 1 THEN Trivia
                    ELSE IF i % 2 = 1 THEN "IDENT" ELSE "INT_NUMBER"]

\* A token tree node of the syntax tree: where it starts, its tokens, and
\* whether the conversion to a tt::Subtree succeeds on it.
ArgNodes ==
    { [start |-> 1, toks |-> ArgToks(n, FALSE), conv |-> TRUE] : n \in 0..MaxArgLen }
    \cup { [start |-> 1, toks |-> ArgToks(MaxArgLen, TRUE), conv |-> TRUE],
           [start |-> 1, toks |-> ArgToks(1, FALSE), conv |-> FALSE] }

\* The positions (1-based) of the non-trivia tokens, in order.
RECURSIVE NonTrivia(_, _)
NonTrivia(toks, i) ==
    IF i > Len(toks) THEN <<>>
    ELSE IF toks[i] = Trivia THEN NonTrivia(toks, i + 1)
    ELSE <<i>> \o NonTrivia(toks, i + 1)

\* mbe::syntax_node_to_token_tree: the subtree of the node's non-trivia
\* tokens, numbered from 0 in order, and the token map from each id to the
\* token's range relative to the node.
syntax_node_to_token_tree(node) ==
    IF ~node.conv THEN None
    ELSE LET ps == NonTrivia(node.toks, 1) IN
         Some([tt |-> [leaves |-> [k \in 1..Len(ps) |->
                                      [id |-> k - 1, kind |-> node.toks[ps[k]]]],
                       pad |-> 0, defIds |-> 0, form |-> "arg"],
               tmap |-> { [id |-> k - 1, pos |-> ps[k] - 1] : k \in 1..Len(ps) }])

\* tt::Subtree::count: the number of tokens of the subtree.
count(tt) == tt.pad + Len(tt.leaves)

\* TextRange::checked_sub: the range moved left by offset, None when it
\* starts before offset.
checked_sub(pos, offset) == IF pos < offset THEN None ELSE Some(pos - offset)

\* TokenMap::token_by_range: the id recorded for exactly that range.
token_by_range(tmap, pos) ==
    IF \E e \in tmap : e.pos = pos
    THEN Some((CHOOSE e \in tmap : e.pos = pos).id)
    ELSE None

----------------------------------------------------------------------------
\* Expanders.

\* The empty subtree, tt::Subtree::default().
EmptySubtree == [leaves |-> <<>>, pad |-> 0, defIds |-> 0, form |-> "junk"]

\* The argument leaves as the rules transcribe them: ids moved past the ids
\* of the definition's own tokens.
ShiftLeaves(leaves, shift) ==
    [i \in 1..Len(leaves) |-> [id |-> leaves[i].id + shift, kind |-> leaves[i].kind]]

\* mbe::MacroRules::expand: def.emit tokens of the template, followed by the
\* argument's tokens when the template substitutes them; ExpandResult may
\* carry an error next to the tokens.
MacroRules_expand(def, tt) ==
    [tt |-> [leaves |-> IF def.subst THEN ShiftLeaves(tt.leaves, def.shift) ELSE <<>>,
             pad |-> def.emit, defIds |-> def.shift, form |-> def.form],
     err |-> IF def.err THEN Some("NoMatchingRule") ELSE None]

\* A builtin expander returns Result<tt::Subtree, ExpandError>; .into() turns
\* Err(e) into ExpandResult(Subtree::default(), Some(e)).
Builtin_expand(def, tt) ==
    IF def.err
    THEN [tt |-> EmptySubtree, err |-> Some("ConversionError")]
    ELSE [tt |-> [leaves |-> IF def.subst THEN tt.leaves ELSE <<>>,
                  pad |-> def.emit, defIds |-> 0, form |-> def.form],
          err |-> None]

\* mbe::MacroRules::map_id_down: the id shifted past the definition's ids.
MacroRules_map_id_down(def, id) == id + def.shift

\* TokenExpander::expand.
TokenExpander_expand(exp, tt) ==
    IF exp.tag = "MacroRules" THEN MacroRules_expand(defs[exp.def], tt)
    ELSE Builtin_expand(defs[exp.def], tt)

\* A map_id_down that shifts for every expander.
map_id_down_shifted(exp, id) == MacroRules_map_id_down(defs[exp.def], id)

\* TokenExpander::map_id_down.
map_id_down(exp, id) ==
    IF exp.tag = "MacroRules" THEN MacroRules_map_id_down(defs[exp.def], id)
    ELSE id

\* mbe::MacroRules::map_id_up: an id past the definition's ids came from the
\* call site and is shifted back; the others are the definition's own.
MacroRules_map_id_up(def, id) ==
    IF id >= def.shift THEN [id |-> id - def.shift, origin |-> "Call"]
    ELSE [id |-> id, origin |-> "Def"]

\* TokenExpander::map_id_up.
map_id_up(exp, id) ==
    IF exp.tag = "MacroRules" THEN MacroRules_map_id_up(defs[exp.def], id)
    ELSE [id |-> id, origin |-> "Call"]

----------------------------------------------------------------------------
\* The evaluation context threaded through one operation: the memo tables,
\* the warnings logged and the queries invoked so far.

Ret(v, ctx) == [v |-> v, ctx |-> ctx]

Invoke(ctx, q) == [ctx EXCEPT !.inv = @ \cup {q}]

Warn(ctx, msg, reason, parents) ==
    [ctx EXCEPT !.log = Append(@, [msg |-> msg, reason |-> reason, parents |-> parents])]

\* A memo table slot: Absent, or the one-element tuple of the stored value.
Absent == <<>>

\* The error strings of macro_expand_with_arg.
EagerHypotheticalMsg == "hypothetical macro expansion not implemented for eager macro"

ArgFailMsg == "Fail to args in to tt::TokenTree"

DefNotFoundMsg == "Fail to find macro definition"

LimitMsg(n) == "Total tokens count exceed limit : count = " \o ToString(n)

----------------------------------------------------------------------------
\* Queries.

\* A macro_def that resolves a derive definition to the function-like
\* variant.
macro_def_one_variant(ctx, d) ==
    LET def == defs[d] IN
    CASE def.kind = "Declarative" ->
            IF ~def.ast_id THEN Ret(None, ctx)
            ELSE IF ~def.token_tree THEN Ret(None, ctx)
            ELSE IF ~def.body_conv
                 THEN Ret(None, Warn(ctx, "fail on macro_def to token tree", "", None))
            ELSE IF ~def.rules_ok
                 THEN Ret(None, Warn(ctx, "fail on macro_def parse", "", None))
            ELSE Ret(Some([expander |-> [tag |-> "MacroRules", def |-> d],
                           tmap |-> "def"]), ctx)
      [] def.kind \in {"BuiltIn", "BuiltInDerive"} ->
            Ret(Some([expander |-> [tag |-> "Builtin", def |-> d],
                      tmap |-> "default"]), ctx)
      [] def.kind = "BuiltInEager" -> Ret(None, ctx)

\* macro_def: the expander of a definition and its token map.
macro_def(ctx, d) ==
    LET def == defs[d] IN
    CASE def.kind = "Declarative" ->
            IF ~def.ast_id THEN Ret(None, ctx)
            ELSE IF ~def.token_tree THEN Ret(None, ctx)
            ELSE IF ~def.body_conv
                 THEN Ret(None, Warn(ctx, "fail on macro_def to token tree", "", None))
            ELSE IF ~def.rules_ok
                 THEN Ret(None, Warn(ctx, "fail on macro_def parse", "", None))
            ELSE Ret(Some([expander |-> [tag |-> "MacroRules", def |-> d],
                           tmap |-> "def"]), ctx)
      [] def.kind = "BuiltIn" ->
            Ret(Some([expander |-> [tag |-> "Builtin", def |-> d],
                      tmap |-> "default"]), ctx)
      [] def.kind = "BuiltInDerive" ->
            Ret(Some([expander |-> [tag |-> "BuiltinDerive", def |-> d],
                      tmap |-> "default"]), ctx)
      [] def.kind = "BuiltInEager" -> Ret(None, ctx)

\* A memoized query storing the value it computed under its key.
Memoize(table, key, r) ==
    Ret(r.v, [r.ctx EXCEPT !.memo[table][key] = Some(r.v)])

\* db.macro_def: the memoized query.
db_macro_def(ctx, d) ==
    IF ctx.memo.macro_def[d] # Absent
    THEN Ret(Unwrap(ctx.memo.macro_def[d]), Invoke(ctx, <<"macro_def", d>>))
    ELSE Memoize("macro_def", d, macro_def(Invoke(ctx, <<"macro_def", d>>), d))

\* A macro_arg that answers for an eager call with its stored subtree.
macro_arg_of_eager(ctx, id) ==
    IF ~IsLazy(id) THEN Ret(Some([tt |-> eager[id].subtree, tmap |-> {}]), ctx)
    ELSE IF loc[id].arg = None THEN Ret(None, ctx)
    ELSE Ret(syntax_node_to_token_tree(Unwrap(loc[id].arg)), ctx)

\* macro_arg: the token tree of a lazy call's argument region.
macro_arg(ctx, id) ==
    IF ~IsLazy(id) THEN Ret(None, ctx)
    ELSE IF loc[id].arg = None THEN Ret(None, ctx)
    ELSE Ret(syntax_node_to_token_tree(Unwrap(loc[id].arg)), ctx)

\* db.macro_arg: the memoized query.
db_macro_arg(ctx, id) ==
    IF ctx.memo.macro_arg[id] # Absent
    THEN Ret(Unwrap(ctx.memo.macro_arg[id]), Invoke(ctx, <<"macro_arg", id>>))
    ELSE Memoize("macro_arg", id, macro_arg(Invoke(ctx, <<"macro_arg", id>>), id))

\* expander: the definition a call expands with; none for an eager call.
expander(ctx, id) ==
    IF ~IsLazy(id) THEN Ret(None, ctx)
    ELSE db_macro_def(ctx, loc[id].def)

\* A size guard that lets a tree of one token more through.
ExceedsLimitOffByOne(n) == n > TokenLimit + 1

\* The hard limit for the expanded tt.
ExceedsLimit(n) == n > TokenLimit

\* A size guard that drops the tree and passes the expander's diagnostic on.
SizeGuardKeepingError(r, ctx) ==
    IF ExceedsLimit(count(r.tt))
    THEN Ret([tt |-> None, err |-> r.err], ctx)
    ELSE Ret([tt |-> Some(r.tt), err |-> r.err], ctx)

\* The size guard at the end of macro_expand_with_arg, on the expander's
\* result r.
SizeGuard(r, ctx) ==
    IF ExceedsLimit(count(r.tt))
    THEN Ret([tt |-> None, err |-> Some(LimitMsg(count(r.tt)))], ctx)
    ELSE Ret([tt |-> Some(r.tt), err |-> r.err], ctx)

\* macro_expand_with_arg once the definition query m has answered: the
\* expander run on the argument subtree.
ExpandWithDef(id, tt, m) ==
    IF m.v = None THEN Ret([tt |-> None, err |-> Some(DefNotFoundMsg)], m.ctx)
    ELSE SizeGuard(TokenExpander_expand(Unwrap(m.v).expander, tt),
                   Invoke(m.ctx, <<"expand", id>>))

\* macro_expand_with_arg asking for the definition before the argument.
ExpandLazyDefFirst(id, a) ==
    IF db_macro_def(a.ctx, loc[id].def).v = None
    THEN Ret([tt |-> None, err |-> Some(DefNotFoundMsg)],
             db_macro_def(a.ctx, loc[id].def).ctx)
    ELSE IF a.v = None THEN Ret([tt |-> None, err |-> Some(ArgFailMsg)], a.ctx)
    ELSE ExpandWithDef(id, Unwrap(a.v).tt, db_macro_def(a.ctx, loc[id].def))

\* macro_expand_with_arg on a lazy call id once the argument a is resolved.
ExpandLazy(id, a) ==
    IF a.v = None THEN Ret([tt |-> None, err |-> Some(ArgFailMsg)], a.ctx)
    ELSE ExpandWithDef(id, Unwrap(a.v).tt, db_macro_def(a.ctx, loc[id].def))

\* arg.or_else(|| db.macro_arg(id)): the supplied argument, else the call's.
ResolveArg(ctx, id, arg) ==
    IF IsSome(arg) THEN Ret(arg, ctx) ELSE db_macro_arg(ctx, id)

\* The eager id falling through to the lazy path.
EagerBranchFallThrough(ctx, id, arg) == ExpandLazy(id, ResolveArg(ctx, id, arg))

\* macro_expand_with_arg on an eager call id.
EagerBranch(ctx, id, arg) ==
    IF IsSome(arg)
    THEN Ret([tt |-> None, err |-> Some(EagerHypotheticalMsg)], ctx)
    ELSE Ret([tt |-> Some(eager[id].subtree), err |-> None],
             Invoke(ctx, <<"lookup_intern_eager_expansion", id>>))

\* macro_expand_with_arg: the expansion of a call, with its own argument or
\* the one supplied.
macro_expand_with_arg(ctx, id, arg) ==
    IF ~IsLazy(id) THEN EagerBranch(ctx, id, arg)
    ELSE ExpandLazy(id, ResolveArg(ctx, id, arg))

\* macro_expand.
macro_expand(ctx, id) == macro_expand_with_arg(ctx, id, None)

\* db.macro_expand: the memoized query.
db_macro_expand(ctx, id) ==
    IF ctx.memo.macro_expand[id] # Absent
    THEN Ret(Unwrap(ctx.memo.macro_expand[id]), Invoke(ctx, <<"macro_expand", id>>))
    ELSE Memoize("macro_expand", id, macro_expand(Invoke(ctx, <<"macro_expand", id>>), id))

----------------------------------------------------------------------------
\* Fragment classification and re-parse.

\* A call at the root of its file taken for items.
RootFragmentItems == "Items"

\* The fragment kind of a call node without a parent.
RootFragment == "Expr"

\* A classification that takes a call under an unknown parent for an
\* expression.
to_fragment_kind_guess_expr(id) ==
    IF ~IsLazy(id) THEN eager[id].fragment
    ELSE IF loc[id].parent \in {"MACRO_ITEMS", "SOURCE_FILE", "ITEM_LIST"} THEN "Items"
    ELSE "Expr"

\* to_fragment_kind: what FragmentKind a call's expansion is parsed as.
to_fragment_kind(id) ==
    IF ~IsLazy(id) THEN eager[id].fragment
    ELSE LET parent == loc[id].parent IN
         IF parent = NoParent THEN RootFragment
         ELSE IF parent \in {"MACRO_ITEMS", "SOURCE_FILE"} THEN "Items"
         ELSE IF parent = "ITEM_LIST" THEN "Items"
         ELSE IF parent = "LET_STMT" THEN "Expr"
         ELSE IF parent \in {"EXPR_STMT", "BLOCK"} THEN "Expr"
         ELSE IF parent \in {"ARG_LIST", "TRY_EXPR", "TUPLE_EXPR", "PAREN_EXPR"} THEN "Expr"
         ELSE IF parent \in {"FOR_EXPR", "PATH_EXPR", "LAMBDA_EXPR", "CONDITION",
                             "BREAK_EXPR", "RETURN_EXPR", "BLOCK_EXPR", "MATCH_EXPR",
                             "MATCH_ARM", "MATCH_GUARD", "RECORD_FIELD", "CALL_EXPR",
                             "INDEX_EXPR", "METHOD_CALL_EXPR", "AWAIT_EXPR", "CAST_EXPR",
                             "REF_EXPR", "PREFIX_EXPR", "RANGE_EXPR", "BIN_EXPR"} THEN "Expr"
         ELSE "Items"

\* mbe::token_tree_to_syntax_node: the token tree parsed as the fragment
\* kind, with the reverse token map (a function of the tree's subtree); an
\* error when the tokens do not parse as that kind.
token_tree_to_syntax_node(tt, kind) ==
    IF (kind = "Items" /\ tt.form = "items") \/ (kind = "Expr" /\ tt.form = "expr")
    THEN Some([tree |-> [tt |-> tt, kind |-> kind]])
    ELSE None

\* The syntax token of a tree at a position: the template's tokens come
\* first, then the substituted leaves, each of unit width.
TokenAt(tree, pos) ==
    IF pos < tree.tt.pad THEN [pos |-> pos, kind |-> "IDENT"]
    ELSE [pos |-> pos, kind |-> tree.tt.leaves[pos - tree.tt.pad + 1].kind]

\* TokenMap::range_by_token on the reverse map of a tree: the first entry
\* recorded for the id. Template tokens carry the ids of the definition's
\* own tokens, substituted leaves their (shifted) argument ids.
range_by_token(tree, id) ==
    LET tt == tree.tt
        hits == { i \in 1..Len(tt.leaves) : tt.leaves[i].id = id }
    IN  IF id < tt.defIds /\ id < tt.pad
        THEN Some(TokenAt(tree, id))
        ELSE IF hits = {} THEN None
        ELSE LET i == CHOOSE j \in hits : \A k \in hits : j <= k
             IN  Some(TokenAt(tree, tt.pad + i - 1))

\* TokenTextRange::by_kind: the range of the entry if it is of that kind.
by_kind(entry, kind) == IF entry.kind = kind THEN Some(entry.pos) ELSE None

\* algo::find_covering_element(..).into_token(): the token covering the
\* range, none when only a node covers it.
find_covering_token(tree, pos) ==
    IF pos < count(tree.tt) THEN Some(TokenAt(tree, pos)) ELSE None

\* HirFileId::call_node: the call that produced a virtual file, none for a
\* real file.
FileOf(call) == IF IsLazy(call) THEN loc[call].file ELSE eager[call].file

\* A walk that stops at the first enclosing call.
ParentChainDirect(file, fuel) == IF file = RealFile THEN <<>> ELSE <<file>>

\* The enclosing calls of a file, innermost first, up to the nearest real
\* file (std::iter::successors over call_node).
RECURSIVE ParentChain(_, _)
ParentChain(file, fuel) ==
    IF file = RealFile \/ fuel = 0 THEN <<>>
    ELSE <<file>> \o ParentChain(FileOf(file), fuel - 1)

\* The expansion step of parse_macro_with_arg going through the memoized
\* query, and storing what it computed for the supplied argument there.
ExpandStepCached(ctx, id, arg) ==
    IF IsSome(arg)
    THEN Memoize("macro_expand", id, macro_expand_with_arg(ctx, id, arg))
    ELSE db_macro_expand(ctx, id)

\* The expansion step of parse_macro_with_arg: uncached with a supplied
\* argument, the memoized query otherwise.
ExpandStep(ctx, id, arg) ==
    IF IsSome(arg) THEN macro_expand_with_arg(ctx, id, arg)
    ELSE db_macro_expand(ctx, id)

\* The warning of parse_macro_with_arg for an expansion that carries an
\* error: with the parents of the call for a lazy id, the reason alone for
\* an eager one.
WarnExpansion(id, e) ==
    IF e.v.err = None THEN e.ctx
    ELSE IF IsLazy(id)
         THEN Warn(e.ctx, "fail on macro_parse", Unwrap(e.v.err),
                   Some(ParentChain(loc[id].file, Cardinality(CallIds))))
         ELSE Warn(e.ctx, "fail on macro_parse", Unwrap(e.v.err), None)

\* A re-parse that falls back to the tree of the other fragment kind instead
\* of giving up.
ParseExpansionLenient(id, e) ==
    IF e.v.tt = None THEN Ret(None, WarnExpansion(id, e))
    ELSE Ret(Some([tree |-> [tt |-> Unwrap(e.v.tt), kind |-> to_fragment_kind(id)]]),
             WarnExpansion(id, e))

\* parse_macro_with_arg once the expansion e is there.
ParseExpansion(id, e) ==
    IF e.v.tt = None THEN Ret(None, WarnExpansion(id, e))
    ELSE Ret(token_tree_to_syntax_node(Unwrap(e.v.tt), to_fragment_kind(id)),
             WarnExpansion(id, e))

\* parse_macro_with_arg: the expansion re-parsed as the call's fragment kind.
parse_macro_with_arg(ctx, id, arg) == ParseExpansion(id, ExpandStep(ctx, id, arg))

\* parse_macro.
parse_macro(ctx, id) == parse_macro_with_arg(ctx, id, None)

\* db.parse_macro: the memoized query.
db_parse_macro(ctx, id) ==
    IF ctx.memo.parse_macro[id] # Absent
    THEN Ret(Unwrap(ctx.memo.parse_macro[id]), Invoke(ctx, <<"parse_macro", id>>))
    ELSE Memoize("parse_macro", id, parse_macro(Invoke(ctx, <<"parse_macro", id>>), id))

\* The syntax tree of the real file, db.parse(file_id).tree().
RealTree == [tt |-> [leaves |-> <<>>, pad |-> 1, defIds |-> 0, form |-> "items"],
             kind |-> "SourceFile"]

\* The syntax node of a parse_macro result.
SyntaxNodeOf(r) == Ret(IF IsSome(r.v) THEN Some(Unwrap(r.v).tree) ELSE None, r.ctx)

\* parse_or_expand: the tree of a real file or of an expansion; transparent,
\* never memoized itself.
parse_or_expand(ctx, file) ==
    IF file = RealFile THEN Ret(Some(RealTree), ctx)
    ELSE SyntaxNodeOf(db_parse_macro(ctx, file))

\* AstIdMap::from_source of a tree, AstIdMap::default() without one.
AstIdMapOf(r) ==
    Ret(IF IsSome(r.v) THEN [empty |-> FALSE, of |-> r.v]
        ELSE [empty |-> TRUE, of |-> None], r.ctx)

\* ast_id_map: the map of the file's tree.
ast_id_map(ctx, file) == AstIdMapOf(parse_or_expand(ctx, file))

\* db.ast_id_map: the memoized query.
db_ast_id_map(ctx, file) ==
    IF ctx.memo.ast_id_map[file] # Absent
    THEN Ret(Unwrap(ctx.memo.ast_id_map[file]), Invoke(ctx, <<"ast_id_map", file>>))
    ELSE Memoize("ast_id_map", file, ast_id_map(Invoke(ctx, <<"ast_id_map", file>>), file))

----------------------------------------------------------------------------
\* Hypothetical expansion.

\* The outcome of an operation that unwinds.
Panic == [panic |-> TRUE]

\* The tracked token mapped into the expansion without map_id_down.
MapTrackedUnshifted(exp, id) == id

\* The id of the tracked token in the expansion's id space.
MapTracked(exp, id) == map_id_down(exp, id)

\* The end of expand_hypothetical: the token covering the range found.
CoveringToken(node, range, ctx) ==
    IF range = None THEN Ret(None, ctx)
    ELSE IF find_covering_token(node, Unwrap(range)) = None THEN Ret(None, ctx)
    ELSE Ret(Some([node |-> node,
                   token |-> Unwrap(find_covering_token(node, Unwrap(range)))]), ctx)

\* expand_hypothetical from the reverse token map's entry on.
TokenOfEntry(node, entry, kind, ctx) ==
    IF entry = None THEN Ret(None, ctx)
    ELSE CoveringToken(node, by_kind(Unwrap(entry), kind), ctx)

\* expand_hypothetical once the expansion is re-parsed: the tracked id
\* mapped down and looked up in the reverse token map.
MapDown(exp, token_id, kind, p) ==
    IF p.v = None THEN Ret(None, p.ctx)
    ELSE TokenOfEntry(Unwrap(p.v).tree,
                      range_by_token(Unwrap(p.v).tree, MapTracked(exp, token_id)),
                      kind, p.ctx)

\* The call expanded and parsed before the expander is looked up.
ExpandTrackedParseFirst(id, arg, token_id, kind, m) ==
    IF parse_macro_with_arg(m.ctx, id, Some(arg)).v = None
    THEN Ret(None, parse_macro_with_arg(m.ctx, id, Some(arg)).ctx)
    ELSE IF m.v = None THEN Ret(None, m.ctx)
    ELSE MapDown(Unwrap(m.v).expander, token_id, kind,
                 parse_macro_with_arg(m.ctx, id, Some(arg)))

\* expand_hypothetical once the tracked token has an id: the expander is
\* looked up, then the call is expanded and parsed with the argument.
ExpandTracked(id, arg, token_id, kind, m) ==
    IF m.v = None THEN Ret(None, m.ctx)
    ELSE MapDown(Unwrap(m.v).expander, token_id, kind,
                 parse_macro_with_arg(m.ctx, id, Some(arg)))

\* expand_hypothetical once the hypothetical argument is converted.
TrackToken(ctx, id, arg, range, kind) ==
    IF range = None THEN Ret(None, ctx)
    ELSE IF token_by_range(arg.tmap, Unwrap(range)) = None THEN Ret(None, ctx)
    ELSE ExpandTracked(id, arg, Unwrap(token_by_range(arg.tmap, Unwrap(range))), kind,
                       expander(ctx, id))

\* expand_hypothetical: the call expanded with hypothetical_args in place of
\* its argument, and token_to_map mapped down into the expansion. The
\* conversion of hypothetical_args is unwrapped.
expand_hypothetical(ctx, id, hyp, tok) ==
    IF syntax_node_to_token_tree(hyp) = None THEN Panic
    ELSE TrackToken(ctx, id, Unwrap(syntax_node_to_token_tree(hyp)),
                    checked_sub(tok.pos, hyp.start), tok.kind)

----------------------------------------------------------------------------
\* The merge_imports assist (crates/ra_assists/src/handlers/merge_imports.rs).
\* A source file is a sequence of items, each followed by a newline except
\* possibly the last; its text is a sequence of characters, and offsets count
\* characters from 0.

\* The paths of the use trees: segments are one character long.
UsePaths ==
    { <<"a", "b">>, <<"a", "c">>, <<"a", "b", "c">>, <<"a", "b", "d">>, <<"b", "c">> }

\* A use tree: a path (empty for `*`) and an optional list of nested trees,
\* each a plain path.
PlainTree(path) == [path |-> path, list |-> None]

\* The items: `use <path>;`, `use *;` and `mod m;`.
ItemKinds ==
    { [kind |-> "USE_ITEM", tree |-> PlainTree(q)] : q \in UsePaths \cup {<<>>} }
    \cup { [kind |-> "MODULE", tree |-> PlainTree(<<>>)] }

\* The source files: up to MaxItems items, with or without a newline at the
\* end of the file.
SourceFiles ==
    { [items |-> is, nl |-> b] :
        is \in UNION { [1..n -> ItemKinds] : n \in 1..MaxItems }, b \in BOOLEAN }

\* The text of a path: its segments joined by `::`.
RECURSIVE PathChars(_)
PathChars(path) ==
    IF path = <<>> THEN <<>>
    ELSE IF Len(path) = 1 THEN <<path[1]>>
    ELSE <<path[1], ":", ":">> \o PathChars(Tail(path))

\* The text of the trees of a use tree list, joined by `, `.
RECURSIVE ListChars(_)
ListChars(list) ==
    IF list = <<>> THEN <<>>
    ELSE IF Len(list) = 1 THEN PathChars(list[1])
    ELSE PathChars(list[1]) \o <<",", " ">> \o ListChars(Tail(list))

\* The text of a use tree.
TreeChars(tree) ==
    IF tree.list = None
    THEN IF tree.path = <<>> THEN <<"*">> ELSE PathChars(tree.path)
    ELSE PathChars(tree.path) \o <<":", ":", "{">> \o ListChars(Unwrap(tree.list)) \o <<"}">>

\* The text of an item.
ItemChars(item) ==
    IF item.kind = "USE_ITEM"
    THEN <<"u", "s", "e", " ">> \o TreeChars(item.tree) \o <<";">>
    ELSE <<"m", "o", "d", " ", "m", ";">>

\* The length of the whitespace token that follows item i, 0 without one.
WsLen(file, i) == IF i < Len(file.items) \/ file.nl THEN 1 ELSE 0

\* The text of the file from item i on.
RECURSIVE FileChars(_, _)
FileChars(file, i) ==
    IF i > Len(file.items) THEN <<>>
    ELSE ItemChars(file.items[i])
         \o (IF WsLen(file, i) = 1 THEN <<"\n">> ELSE <<>>)
         \o FileChars(file, i + 1)

\* The text range of item i: [start, end).
RECURSIVE ItemStart(_, _)
ItemStart(file, i) ==
    IF i = 1 THEN 0
    ELSE ItemStart(file, i - 1) + Len(ItemChars(file.items[i - 1])) + WsLen(file, i - 1)

ItemEnd(file, i) == ItemStart(file, i) + Len(ItemChars(file.items[i]))

\* The text range of the use tree of use item i: between `use ` and `;`.
TreeStart(file, i) == ItemStart(file, i) + 4

TreeEnd(file, i) == ItemEnd(file, i) - 1

\* AssistCtx::find_node_at_offset::<ast::UseTree>: the use item whose tree
\* covers the offset (a token on either side of the offset is in the tree).
find_node_at_offset(file, offset) ==
    LET hits == { i \in 1..Len(file.items) :
                    /\ file.items[i].kind = "USE_ITEM"
                    /\ TreeStart(file, i) <= offset
                    /\ offset <= TreeEnd(file, i) }
    IN  IF hits = {} THEN None ELSE Some(CHOOSE i \in hits : TRUE)

\* next_use_item: the first use item among the siblings in the direction.
next_use_item(file, i, direction) ==
    LET sibs == IF direction = "Prev"
                THEN { j \in 1..(i - 1) : file.items[j].kind = "USE_ITEM" }
                ELSE { j \in (i + 1)..Len(file.items) : file.items[j].kind = "USE_ITEM" }
    IN  IF sibs = {} THEN None
        ELSE IF direction = "Prev"
             THEN Some(CHOOSE j \in sibs : \A k \in sibs : k <= j)
             ELSE Some(CHOOSE j \in sibs : \A k \in sibs : j <= k)

\* The loop of common_prefix: the sub-paths of lhs and rhs made of their
\* first n segments are compared; found is the length of the last pair
\* found equal.
RECURSIVE CommonPrefixLoop(_, _, _, _)
CommonPrefixLoop(lhs, rhs, n, found) ==
    IF lhs[n] # rhs[n] THEN found
    ELSE IF n < Len(lhs) /\ n < Len(rhs) THEN CommonPrefixLoop(lhs, rhs, n + 1, Some(n))
    ELSE Some(n)

\* A common_prefix that stops at the first segment.
common_prefix_first_segment(lhs, rhs) == IF lhs[1] # rhs[1] THEN None ELSE Some(1)

\* common_prefix: the number of leading segments the two paths share, from
\* first_path (the first segment) on; None when the first segments differ.
common_prefix(lhs, rhs) == CommonPrefixLoop(lhs, rhs, 1, None)

\* ast::UseTree::split_prefix: the tree as prefix::{suffix}; the tree
\* itself when the prefix is its whole path.
split_prefix(tree, n) ==
    IF n = Len(tree.path) THEN tree
    ELSE [path |-> SubSeq(tree.path, 1, n),
          list |-> Some(<<SubSeq(tree.path, n + 1, Len(tree.path))>>)]

\* try_merge_trees once both trees are split: the trees of rhs inserted
\* before the closing brace of lhs, after a comma and a space.
InsertTrees(lhs, rhs) ==
    IF rhs.list = None THEN None
    ELSE IF lhs.list = None THEN None
    ELSE Some([lhs EXCEPT !.list = Some(Unwrap(lhs.list) \o Unwrap(rhs.list))])

\* try_merge_trees once the common prefix is known.
MergeAtPrefix(old, new, prefix) ==
    IF prefix = None THEN None
    ELSE InsertTrees(split_prefix(old, Unwrap(prefix)), split_prefix(new, Unwrap(prefix)))

\* try_merge_trees.
try_merge_trees(old, new) ==
    IF old.path = <<>> THEN None
    ELSE IF new.path = <<>> THEN None
    ELSE MergeAtPrefix(old, new, common_prefix(old.path, new.path))

\* The merge of the tree of item i with the one of the sibling found in the
\* direction, None without a sibling or a merge.
MergeWith(file, i, sib) ==
    IF sib = None THEN None
    ELSE IF try_merge_trees(file.items[i].tree, file.items[Unwrap(sib)].tree) = None THEN None
    ELSE Some([merged |-> Unwrap(try_merge_trees(file.items[i].tree,
                                                  file.items[Unwrap(sib)].tree)),
               to_delete |-> Unwrap(sib)])

\* The first of the siblings, previous then next, the tree merges with.
FindMerge(file, i) ==
    IF MergeWith(file, i, next_use_item(file, i, "Prev")) # None
    THEN MergeWith(file, i, next_use_item(file, i, "Prev"))
    ELSE MergeWith(file, i, next_use_item(file, i, "Next"))

\* The characters of text in the range [from, to).
Slice(text, from, to) == SubSeq(text, from + 1, to)

\* The text after the two edits: the range [ts, te) replaced by chars and
\* the range [ds, de) deleted; the ranges do not overlap.
ApplyEdits(text, ts, te, chars, ds, de) ==
    IF de <= ts
    THEN Slice(text, 0, ds) \o Slice(text, de, ts) \o chars \o Slice(text, te, Len(text))
    ELSE Slice(text, 0, ts) \o chars \o Slice(text, te, ds) \o Slice(text, de, Len(text))

\* The cursor after the edit: moved left by the deleted length when the
\* deleted range ends at or before it.
MoveCursor(offset, ds, de) == IF de <= offset THEN offset - (de - ds) ELSE offset

\* The edit of merge_imports: the tree replaced by the merged one, the other
\* use item deleted with the whitespace token that follows it, the cursor
\* set.
MergeEdit(file, offset, i, m) ==
    [text |-> ApplyEdits(FileChars(file, 1), TreeStart(file, i), TreeEnd(file, i),
                         TreeChars(m.merged),
                         ItemStart(file, m.to_delete),
                         ItemEnd(file, m.to_delete) + WsLen(file, m.to_delete)),
     cursor |-> MoveCursor(offset, ItemStart(file, m.to_delete),
                           ItemEnd(file, m.to_delete) + WsLen(file, m.to_delete))]

\* merge_imports once the use tree at the cursor is found.
MergeTree(file, offset, tree) ==
    IF tree = None THEN None
    ELSE IF FindMerge(file, Unwrap(tree)) = None THEN None
    ELSE Some(MergeEdit(file, offset, Unwrap(tree), Unwrap(FindMerge(file, Unwrap(tree)))))

\* merge_imports: the assist for the cursor at the offset, None when it is
\* not offered.
merge_imports(file, offset) == MergeTree(file, offset, find_node_at_offset(file, offset))

----------------------------------------------------------------------------
\* The databases the model starts from.

\* A macro_rules definition that resolves: m($($t:tt),*) => { ... $($t),* }.
GoodRules ==
    [kind |-> "Declarative", ast_id |-> TRUE, token_tree |-> TRUE, body_conv |-> TRUE,
     rules_ok |-> TRUE, emit |-> 2, subst |-> TRUE, err |-> FALSE, shift |-> 3,
     form |-> "expr"]

\* The ways a declarative definition fails to resolve, and the definition
\* kind that has no expander.
UnresolvableDefs ==
    { [GoodRules EXCEPT !.ast_id = FALSE],
      [GoodRules EXCEPT !.token_tree = FALSE],
      [GoodRules EXCEPT !.body_conv = FALSE],
      [GoodRules EXCEPT !.rules_ok = FALSE],
      [GoodRules EXCEPT !.kind = "BuiltInEager"] }

\* The kinds of definition that have an expander.
ExpanderKinds == {"Declarative", "BuiltIn", "BuiltInDerive"}

\* The token counts the templates of the model emit, around the limit.
EmitCounts == {2, TokenLimit - MaxArgLen, TokenLimit - 1, TokenLimit, TokenLimit + 1}

\* A subtree of n synthesized tokens.
PadSubtree(n, form) == [leaves |-> <<>>, pad |-> n, defIds |-> 0, form |-> form]

\* The argument region of n tokens, converting.
ArgOf(n) == Some([start |-> 1, toks |-> ArgToks(n, FALSE), conv |-> TRUE])

\* An argument region whose conversion to a token tree fails.
ArgUnconvertible == Some([start |-> 1, toks |-> ArgToks(1, FALSE), conv |-> FALSE])

\* L1 is a call in the real file, L2 a call inside the expansion of L1.
BaseLoc ==
    [L1 |-> [def |-> "D1", file |-> RealFile, parent |-> "EXPR_STMT", arg |-> ArgOf(MaxArgLen)],
     L2 |-> [def |-> "D2", file |-> "L1", parent |-> "SOURCE_FILE", arg |-> ArgOf(0)]]

BaseEager ==
    [E1 |-> [subtree |-> PadSubtree(3, "expr"), fragment |-> "Expr", file |-> RealFile]]

BaseDefs == [D1 |-> GoodRules, D2 |-> [GoodRules EXCEPT !.form = "items"]]

EmptyMemo ==
    [macro_arg |-> [c \in CallIds |-> Absent],
     macro_def |-> [d \in DefIds |-> Absent],
     macro_expand |-> [c \in CallIds |-> Absent],
     parse_macro |-> [c \in CallIds |-> Absent],
     ast_id_map |-> [f \in FileIds |-> Absent]]

\* Nothing has run yet.
InitRun ==
    /\ memo = EmptyMemo
    /\ op = [name |-> "none", id |-> "", hyp |-> None, tok |-> None]
    /\ res = None
    /\ panicked = FALSE
    /\ log = <<>>
    /\ invoked = {}
    /\ seen = [c \in CallIds |-> None]

\* Databases for the interplay of all operations: the definition of L1 and
\* the argument of L1 vary.
Init ==
    /\ \E d \in { GoodRules, [GoodRules EXCEPT !.err = TRUE],
                  [GoodRules EXCEPT !.emit = TokenLimit + 1],
                  [GoodRules EXCEPT !.rules_ok = FALSE],
                  [GoodRules EXCEPT !.kind = "BuiltIn"] } :
          defs = [BaseDefs EXCEPT !.D1 = d]
    /\ \E a \in {ArgOf(MaxArgLen), None} : loc = [BaseLoc EXCEPT !.L1.arg = a]
    /\ eager = BaseEager
    /\ InitRun

\* Databases around the token limit: L1 and L2 expand with the same
\* definition, L1 with MaxArgLen argument tokens and L2 with none.
InitSize ==
    /\ \E k \in ExpanderKinds, n \in EmitCounts, e \in BOOLEAN :
          defs = [BaseDefs EXCEPT !.D1 = [GoodRules EXCEPT !.kind = k, !.emit = n, !.err = e]]
    /\ loc = [BaseLoc EXCEPT !.L2.def = "D1"]
    /\ eager = BaseEager

\* Databases with a definition of every kind, resolvable or not, for L2 (the
\* builtin ones with and without a defining node), and an argument of L2
\* that resolves or not.
InitDefs ==
    /\ \E d \in UnresolvableDefs \cup { [GoodRules EXCEPT !.kind = k] : k \in ExpanderKinds }
                  \cup { [GoodRules EXCEPT !.kind = k, !.ast_id = FALSE] :
                           k \in {"BuiltIn", "BuiltInDerive"} } :
          defs = [BaseDefs EXCEPT !.D2 = d]
    /\ \E a \in {ArgOf(1), None, ArgUnconvertible} : loc = [BaseLoc EXCEPT !.L2.arg = a]
    /\ eager = BaseEager

\* Databases with eager expansions of every size around the limit.
InitEager ==
    /\ defs = BaseDefs
    /\ loc = BaseLoc
    /\ \E n \in {0, 3, TokenLimit, TokenLimit + 1}, f \in FragmentKinds :
          eager = [BaseEager EXCEPT !.E1.subtree = PadSubtree(n, "expr"), !.E1.fragment = f]

InitExpand == (InitSize \/ InitDefs \/ InitEager) /\ InitRun

\* Databases with L1 under a parent of every kind, expansions of every
\* form, and the eager call stored as either kind, in the real file or in
\* the expansion of L1.
InitFrag ==
    /\ \E p \in ParentKinds, q \in {"SOURCE_FILE", "BIN_EXPR", NoParent} :
          loc = [BaseLoc EXCEPT !.L1.parent = p, !.L2.parent = q]
    /\ \E f \in {"expr", "items"} : defs = [BaseDefs EXCEPT !.D1.form = f]
    /\ \E f \in FragmentKinds, g \in {RealFile, "L1"} :
          eager = [BaseEager EXCEPT !.E1.fragment = f, !.E1.file = g]
    /\ InitRun

\* Databases for hypothetical expansion: expanders of every kind that do or
\* do not substitute their argument, with and without template tokens.
InitHyp ==
    /\ \/ \E k \in ExpanderKinds, sb \in BOOLEAN, n \in {0, 2}, f \in {"expr", "items"} :
             defs = [BaseDefs EXCEPT
                       !.D1 = [GoodRules EXCEPT !.kind = k, !.subst = sb, !.emit = n, !.form = f]]
       \/ \E d \in { [GoodRules EXCEPT !.rules_ok = FALSE],
                     [GoodRules EXCEPT !.emit = TokenLimit],
                     [GoodRules EXCEPT !.err = TRUE] } :
             defs = [BaseDefs EXCEPT !.D1 = d]
    /\ loc = [BaseLoc EXCEPT !.L2.def = "D1"]
    /\ eager = BaseEager
    /\ InitRun

\* Databases whose expansions do or do not parse as the fragment kind of
\* their call: L1 as a statement or an item, the output of D1 in each form
\* and with or without a diagnostic, the eager expansion stored as either
\* kind.
InitReparse ==
    /\ \E p \in {"EXPR_STMT", "SOURCE_FILE"} : loc = [BaseLoc EXCEPT !.L1.parent = p]
    /\ \E f \in {"expr", "items"}, e \in BOOLEAN :
          defs = [BaseDefs EXCEPT !.D1.form = f, !.D1.err = e]
    /\ \E f \in FragmentKinds : eager = [BaseEager EXCEPT !.E1.fragment = f]
    /\ InitRun

\* The ways the calls nest: L2 inside the expansion of L1, and L1 or the
\* eager call inside another expansion or in the real file. Interning a
\* call needs the id of the file it is in, so the nesting is well-founded.
Nestings ==
    { [L1 |-> RealFile, L2 |-> "L1", E1 |-> RealFile],
      [L1 |-> "E1", L2 |-> "L1", E1 |-> RealFile],
      [L1 |-> RealFile, L2 |-> "L1", E1 |-> "L2"] }

\* Databases for the warning of parse_macro_with_arg: every nesting, and a
\* definition of L1 and L2 that expands cleanly, with a diagnostic, past the
\* limit, or does not resolve.
InitParents ==
    /\ \E n \in Nestings :
          /\ loc = [BaseLoc EXCEPT !.L1.file = n.L1, !.L2.file = n.L2, !.L2.def = "D1"]
          /\ eager = [BaseEager EXCEPT !.E1.file = n.E1]
    /\ \E d \in { GoodRules, [GoodRules EXCEPT !.err = TRUE],
                  [GoodRules EXCEPT !.emit = TokenLimit + 1],
                  [GoodRules EXCEPT !.rules_ok = FALSE] } :
          defs = [BaseDefs EXCEPT !.D1 = d]
    /\ InitRun

\* Databases with an expander of every kind for each definition.
InitMap ==
    /\ \E k1 \in ExpanderKinds, k2 \in ExpanderKinds :
          defs = [BaseDefs EXCEPT !.D1.kind = k1, !.D2.kind = k2]
    /\ loc = BaseLoc
    /\ eager = BaseEager
    /\ InitRun

\* Every source file, before the assist is invoked on it.
InitMerge ==
    /\ loc = BaseLoc
    /\ eager = BaseEager
    /\ defs = BaseDefs
    /\ memo = EmptyMemo
    /\ \E file \in SourceFiles :
          op = [name |-> "none", id |-> "", hyp |-> Some(file), tok |-> None]
    /\ res = None
    /\ panicked = FALSE
    /\ log = <<>>
    /\ invoked = {}
    /\ seen = [c \in CallIds |-> None]

----------------------------------------------------------------------------
\* Operations.

\* The tokens a caller may ask expand_hypothetical to track: before the
\* region, on each of its positions, and past it.
TrackedTokens ==
    { [pos |-> p, kind |-> "IDENT"] : p \in 0..(MaxArgLen + 1) }
    \cup { [pos |-> 2, kind |-> "INT_NUMBER"] }

Ctx0 == [memo |-> memo, log |-> <<>>, inv |-> {}]

\* One operation ran and returned r.
Done(name, id, hyp, tok, r) ==
    /\ op' = [name |-> name, id |-> id, hyp |-> hyp, tok |-> tok]
    /\ res' = r.v
    /\ panicked' = FALSE
    /\ memo' = r.ctx.memo
    /\ log' = r.ctx.log
    /\ invoked' = r.ctx.inv
    /\ UNCHANGED <<loc, eager, defs>>

\* One operation ran and unwound: nothing is returned, nothing memoized.
Unwound(name, id, hyp, tok) ==
    /\ op' = [name |-> name, id |-> id, hyp |-> hyp, tok |-> tok]
    /\ res' = None
    /\ panicked' = TRUE
    /\ log' = <<>>
    /\ invoked' = {}
    /\ UNCHANGED <<loc, eager, defs, memo>>

MacroArg(id) ==
    /\ Done("macro_arg", id, None, None, db_macro_arg(Ctx0, id))
    /\ UNCHANGED seen

MacroDef(d) ==
    /\ Done("macro_def", d, None, None, db_macro_def(Ctx0, d))
    /\ UNCHANGED seen

MacroExpand(id) ==
    LET r == db_macro_expand(Ctx0, id) IN
    /\ Done("macro_expand", id, None, None, r)
    /\ seen' = IF seen[id] = None THEN [seen EXCEPT ![id] = Some(r.v)] ELSE seen

ParseMacro(id) ==
    /\ Done("parse_macro", id, None, None, db_parse_macro(Ctx0, id))
    /\ UNCHANGED seen

ParseMacroWithArg(id, node) ==
    /\ node.conv
    /\ Done("parse_macro_with_arg", id, Some(node), None,
            parse_macro_with_arg(Ctx0, id, syntax_node_to_token_tree(node)))
    /\ UNCHANGED seen

MacroExpandWithArg(id, node) ==
    /\ node.conv
    /\ Done("macro_expand_with_arg", id, Some(node), None,
            macro_expand_with_arg(Ctx0, id, syntax_node_to_token_tree(node)))
    /\ UNCHANGED seen

ParseOrExpand(file) ==
    /\ Done("parse_or_expand", file, None, None, parse_or_expand(Ctx0, file))
    /\ UNCHANGED seen

AstIdMap(file) ==
    /\ Done("ast_id_map", file, None, None, db_ast_id_map(Ctx0, file))
    /\ UNCHANGED seen

ToFragmentKind(id) ==
    /\ Done("to_fragment_kind", id, None, None, Ret(to_fragment_kind(id), Ctx0))
    /\ UNCHANGED seen

ExpandHypothetical(id, hyp, tok) ==
    LET r == expand_hypothetical(Ctx0, id, hyp, tok) IN
    /\ IF r = Panic
       THEN Unwound("expand_hypothetical", id, Some(hyp), Some(tok))
       ELSE Done("expand_hypothetical", id, Some(hyp), Some(tok), r)
    /\ UNCHANGED seen

\* The token ids the id mappings are applied to.
TokenIds == 0..MaxTokenId

\* The expander macro_def resolves for a definition.
ResolvedExpander(d) == Unwrap(macro_def(Ctx0, d).v).expander

MapIdDown(d, id) ==
    /\ IsSome(macro_def(Ctx0, d).v)
    /\ Done("map_id_down", d, None, Some(id),
            Ret(map_id_down(ResolvedExpander(d), id), Ctx0))
    /\ UNCHANGED seen

MapIdUp(d, id) ==
    /\ IsSome(macro_def(Ctx0, d).v)
    /\ Done("map_id_up", d, None, Some(id),
            Ret(map_id_up(ResolvedExpander(d), id), Ctx0))
    /\ UNCHANGED seen

\* map_id_up applied to what map_id_down returned.
MapIdUpDown(d, id) ==
    /\ IsSome(macro_def(Ctx0, d).v)
    /\ Done("map_id_up_down", d, None, Some(id),
            Ret(map_id_up(ResolvedExpander(d), map_id_down(ResolvedExpander(d), id)), Ctx0))
    /\ UNCHANGED seen

\* The assist invoked on the source file at hand; a run is one invocation.
MergeImports(offset) ==
    /\ op.name = "none"
    /\ Done("merge_imports", "", op.hyp, Some(offset),
            Ret(merge_imports(Unwrap(op.hyp), offset), Ctx0))
    /\ UNCHANGED seen

\* The call ids, definitions and files the full interplay runs on.
MainCalls == {"L1", "E1"}

MainDefs == {"D1"}

MainFiles == {RealFile} \cup MainCalls

\* The hypothetical arguments of the full interplay: one that converts and
\* differs from the argument of L1, and one that does not convert.
MainArgNodes == { n \in ArgNodes : Len(n.toks) = 1 }

\* The tokens tracked in the full interplay: the argument's token, and one
\* before the region.
MainTracked == { t \in TrackedTokens : t.pos <= 1 }

\* Every operation of the database, in any order.
Next ==
    \/ \E id \in MainCalls : MacroArg(id)
    \/ \E d \in MainDefs : MacroDef(d)
    \/ \E id \in MainCalls : MacroExpand(id)
    \/ \E id \in MainCalls : ParseMacro(id)
    \/ \E id \in MainCalls, node \in MainArgNodes : ParseMacroWithArg(id, node)
    \/ \E file \in MainFiles : ParseOrExpand(file)
    \/ \E file \in MainFiles : AstIdMap(file)
    \/ \E id \in MainCalls, hyp \in MainArgNodes, tok \in MainTracked :
           ExpandHypothetical(id, hyp, tok)

Spec == Init /\ [][Next]_vars

\* The queries up to macro_expand, and the expansion with a supplied
\* argument, on every call id and definition.
NextExpand ==
    \/ \E id \in CallIds : MacroArg(id)
    \/ \E d \in DefIds : MacroDef(d)
    \/ \E id \in CallIds : MacroExpand(id)
    \/ \E id \in CallIds, node \in MainArgNodes : MacroExpandWithArg(id, node)

SpecExpand == InitExpand /\ [][NextExpand]_vars

\* Fragment classification and the queries that re-parse, on every call id.
NextFrag ==
    \/ \E id \in CallIds : ToFragmentKind(id)
    \/ \E id \in CallIds : ParseMacro(id)
    \/ \E file \in FileIds : ParseOrExpand(file)

SpecFrag == InitFrag /\ [][NextFrag]_vars

\* Expansion with a supplied argument, on every call id.
NextHyp ==
    \/ \E id \in CallIds, node \in ArgNodes : ParseMacroWithArg(id, node)
    \/ \E id \in CallIds, hyp \in ArgNodes, tok \in TrackedTokens :
           ExpandHypothetical(id, hyp, tok)

SpecHyp == InitHyp /\ [][NextHyp]_vars

\* Expansion, re-parse and the queries on the virtual file, on every call id.
NextReparse ==
    \/ \E id \in CallIds : MacroExpand(id)
    \/ \E id \in CallIds : ParseMacro(id)
    \/ \E file \in FileIds : ParseOrExpand(file)
    \/ \E file \in FileIds : AstIdMap(file)

SpecReparse == InitReparse /\ [][NextReparse]_vars

\* The re-parse with the call's own argument and with a supplied one, on
\* every call id.
NextParents ==
    \/ \E id \in CallIds : ParseMacro(id)
    \/ \E id \in CallIds, node \in MainArgNodes : ParseMacroWithArg(id, node)

SpecParents == InitParents /\ [][NextParents]_vars

\* The id mappings of the expander of every definition.
NextMap ==
    \/ \E d \in DefIds, id \in TokenIds : MapIdDown(d, id)
    \/ \E d \in DefIds, id \in TokenIds : MapIdUp(d, id)
    \/ \E d \in DefIds, id \in TokenIds : MapIdUpDown(d, id)

SpecMap == InitMap /\ [][NextMap]_vars

\* The assist invoked with the cursor at every offset of the file.
NextMerge == \E offset \in 0..Len(FileChars(Unwrap(op.hyp), 1)) : MergeImports(offset)

SpecMerge == InitMerge /\ [][NextMerge]_vars

----------------------------------------------------------------------------
\* What the database says about a call, read off the interned locations and
\* the definitions.

\* The argument region of a lazy call exists and converts to a token tree.
ArgResolves(id) == loc[id].arg # None /\ Unwrap(loc[id].arg).conv

\* The definition has no expander: a declarative one without a defining
\* node, without a body, with a body that does not convert or does not parse
\* as rules, or a builtin eager one.
DefUnresolvable(d) ==
    \/ /\ defs[d].kind = "Declarative"
       /\ ~(defs[d].ast_id /\ defs[d].token_tree /\ defs[d].body_conv /\ defs[d].rules_ok)
    \/ defs[d].kind = "BuiltInEager"

\* The expander of a resolvable definition.
ExpanderOf(d) ==
    [tag |-> CASE defs[d].kind = "Declarative" -> "MacroRules"
               [] defs[d].kind = "BuiltIn" -> "Builtin"
               [] OTHER -> "BuiltinDerive",
     def |-> d]

\* What the expander of a lazy call produces for its own argument.
OwnExpansion(id) ==
    TokenExpander_expand(ExpanderOf(loc[id].def),
                         Unwrap(syntax_node_to_token_tree(Unwrap(loc[id].arg))).tt)

\* macro_expand ran last, on a lazy call whose argument and definition
\* resolve.
ExpandedLazy ==
    /\ op.name = "macro_expand"
    /\ IsLazy(op.id)
    /\ ArgResolves(op.id)
    /\ ~DefUnresolvable(loc[op.id].def)

----------------------------------------------------------------------------
\* C1: for a lazy call whose argument and definition resolve, an expander
\* output of more than 65536 tokens makes macro_expand return no subtree and
\* the limit message with the actual count; an output of at most 65536
\* tokens is returned whole.
C1_SizeGuard ==
    ExpandedLazy =>
        IF count(OwnExpansion(op.id).tt) > 65536
        THEN /\ res.tt = None
             /\ res.err = Some("Total tokens count exceed limit : count = "
                               \o ToString(count(OwnExpansion(op.id).tt)))
        ELSE res.tt = Some(OwnExpansion(op.id).tt)

\* macro_expand rejected an output of 65537 tokens.
C1_Witness ==
    /\ ExpandedLazy
    /\ count(OwnExpansion(op.id).tt) = 65537
    /\ res.tt = None

\* C3: macro_expand of an eager call returns the subtree stored at interning
\* and no error, and invokes neither macro_arg, nor macro_def, nor an
\* expander.
C3_EagerPrecomputed ==
    (op.name = "macro_expand" /\ ~IsLazy(op.id)) =>
        /\ res = [tt |-> Some(eager[op.id].subtree), err |-> None]
        /\ \A q \in invoked : q[1] \notin {"macro_arg", "macro_def", "expand"}

\* macro_expand ran on the eager call and read the interned expansion.
C3_Witness ==
    /\ op.name = "macro_expand"
    /\ op.id = "E1"
    /\ <<"lookup_intern_eager_expansion", "E1">> \in invoked
    /\ res.tt = Some(eager["E1"].subtree)

\* C5 as stated: macro_def of an unresolvable definition returns None, and
\* macro_expand of every lazy call with such a definition returns the
\* definition-not-found message.
C5_Original ==
    /\ (op.name = "macro_def" /\ DefUnresolvable(op.id)) => (res = None /\ ~panicked)
    /\ (op.name = "macro_expand" /\ IsLazy(op.id) /\ DefUnresolvable(loc[op.id].def)) =>
           res = [tt |-> None, err |-> Some("Fail to find macro definition")]

\* C5, amended: macro_def of an unresolvable definition returns None, and
\* macro_expand of a lazy call with such a definition returns the
\* definition-not-found message when the call's argument resolves, and the
\* argument message when it does not (the argument is resolved first).
C5_DefinitionNotFound ==
    /\ (op.name = "macro_def" /\ DefUnresolvable(op.id)) => (res = None /\ ~panicked)
    /\ (op.name = "macro_expand" /\ IsLazy(op.id) /\ DefUnresolvable(loc[op.id].def)) =>
           /\ ~panicked
           /\ res = [tt |-> None,
                     err |-> IF ArgResolves(op.id)
                             THEN Some("Fail to find macro definition")
                             ELSE Some("Fail to args in to tt::TokenTree")]

\* macro_expand ran on a call whose argument resolves and whose definition's
\* rules do not parse, and answered with the definition-not-found message.
C5_Witness ==
    /\ op.name = "macro_expand"
    /\ IsLazy(op.id)
    /\ ArgResolves(op.id)
    /\ defs[loc[op.id].def].kind = "Declarative"
    /\ ~defs[loc[op.id].def].rules_ok
    /\ res.err = Some("Fail to find macro definition")

\* C8: every subtree macro_expand returns has at most 65536 tokens.
C8_BoundedOutput ==
    (op.name = "macro_expand" /\ IsSome(res.tt)) => count(Unwrap(res.tt)) <= 65536

----------------------------------------------------------------------------
\* C2: macro_expand of a call id returns the same subtree and the same error
\* every time it is invoked, memoized or not, whatever ran in between.
C2_Determinism ==
    op.name = "macro_expand" => (seen[op.id] # None /\ res = Unwrap(seen[op.id]))

\* macro_expand of L1 was answered from the memo table with the subtree it
\* returned first.
C2_Witness ==
    /\ op.name = "macro_expand"
    /\ op.id = "L1"
    /\ invoked = {<<"macro_expand", "L1">>}
    /\ IsSome(res.tt)
    /\ res = Unwrap(seen["L1"])

\* What the macro_def query stores for a definition.
MacroDefValue(d) ==
    IF DefUnresolvable(d) THEN None
    ELSE Some([expander |-> ExpanderOf(d),
               tmap |-> IF defs[d].kind = "Declarative" THEN "def" ELSE "default"])

C7_NoFatalErrors == ~panicked

----------------------------------------------------------------------------
\* The tracked token of a hypothetical expansion, read off the syntax.

\* The index (1-based) of the tracked token among the tokens of the region.
TrackedIndex(hyp, tok) == tok.pos - hyp.start + 1

\* The tracked token is a non-trivia token of the region.
TrackedHasId(hyp, tok) ==
    /\ TrackedIndex(hyp, tok) \in 1..Len(hyp.toks)
    /\ hyp.toks[TrackedIndex(hyp, tok)] # Trivia

\* Its id: the number of non-trivia tokens before it.
TrackedId(hyp, tok) ==
    Cardinality({ j \in 1..(TrackedIndex(hyp, tok) - 1) : hyp.toks[j] # Trivia })

\* The id after map_id_down of the call's expander.
TrackedDown(id, hyp, tok) ==
    IF defs[loc[id].def].kind = "Declarative"
    THEN TrackedId(hyp, tok) + defs[loc[id].def].shift
    ELSE TrackedId(hyp, tok)

\* The re-parse of the expansion of the hypothetical argument.
HypotheticalNode(id, hyp) ==
    [tt |-> TokenExpander_expand(ExpanderOf(loc[id].def),
                                 Unwrap(syntax_node_to_token_tree(hyp)).tt).tt,
     kind |-> to_fragment_kind(id)]

\* expand_hypothetical ran last and returned.
RanHypothetical == op.name = "expand_hypothetical" /\ ~panicked

\* C4 as stated: expand_hypothetical of an eager call with a non-empty
\* argument fails with the error of the expansion stage, hypothetical macro
\* expansion not implemented for eager macro.
C4_Original ==
    (RanHypothetical /\ ~IsLazy(op.id) /\ Unwrap(op.hyp).toks # <<>>) =>
        /\ res = None
        /\ \E i \in 1..Len(log) :
              log[i].reason = "hypothetical macro expansion not implemented for eager macro"

\* C4, amended: expand_hypothetical of an eager call returns None without
\* reaching the expansion stage: no query is invoked and no error produced.
\* The eager error is what the expansion stage answers when
\* parse_macro_with_arg is called with an argument on an eager call.
C4_EagerHypothetical ==
    /\ (RanHypothetical /\ ~IsLazy(op.id)) =>
           (res = None /\ log = <<>> /\ invoked = {})
    /\ (op.name = "parse_macro_with_arg" /\ ~IsLazy(op.id)) =>
           /\ res = None
           /\ log = << [msg |-> "fail on macro_parse",
                        reason |-> "hypothetical macro expansion not implemented for eager macro",
                        parents |-> None] >>

\* expand_hypothetical ran on the eager call with a non-empty argument whose
\* tracked token has an id, and returned None.
C4_Witness ==
    /\ RanHypothetical
    /\ op.id = "E1"
    /\ Unwrap(op.hyp).toks # <<>>
    /\ TrackedHasId(Unwrap(op.hyp), Unwrap(op.tok))
    /\ res = None

\* C10: what expand_hypothetical returns is the re-parse of the expansion of
\* the hypothetical argument and the token of it that the reverse token map
\* gives for the mapped-down id of the tracked token, of the tracked token's
\* kind; a tracked token outside the region, without an id, or whose mapped
\* id has no range of that kind gives None.
C10_HypotheticalToken ==
    RanHypothetical =>
        LET hyp == Unwrap(op.hyp)
            tok == Unwrap(op.tok)
        IN  /\ IsSome(res) =>
                  /\ IsLazy(op.id)
                  /\ Unwrap(res).node = HypotheticalNode(op.id, hyp)
                  /\ Unwrap(res).token.pos < count(Unwrap(res).node.tt)
                  /\ Unwrap(res).token = TokenAt(Unwrap(res).node, Unwrap(res).token.pos)
                  /\ Unwrap(res).token.kind = tok.kind
                  /\ TrackedHasId(hyp, tok)
                  /\ range_by_token(Unwrap(res).node, TrackedDown(op.id, hyp, tok))
                        = Some(Unwrap(res).token)
            /\ tok.pos < hyp.start => res = None
            /\ ~TrackedHasId(hyp, tok) => res = None
            /\ ( /\ IsLazy(op.id)
                 /\ TrackedHasId(hyp, tok)
                 /\ ~DefUnresolvable(loc[op.id].def)
                 /\ \/ range_by_token(HypotheticalNode(op.id, hyp),
                                      TrackedDown(op.id, hyp, tok)) = None
                    \/ Unwrap(range_by_token(HypotheticalNode(op.id, hyp),
                                             TrackedDown(op.id, hyp, tok))).kind # tok.kind )
               => res = None

\* expand_hypothetical returned the second token of a hypothetical argument
\* that differs from the call's own, through an expander that shifts ids.
C10_Witness ==
    /\ RanHypothetical
    /\ IsSome(res)
    /\ defs[loc[op.id].def].kind = "Declarative"
    /\ Unwrap(op.hyp) # Unwrap(loc[op.id].arg)
    /\ TrackedId(Unwrap(op.hyp), Unwrap(op.tok)) = 1
    /\ Unwrap(res).token.pos = defs[loc[op.id].def].emit + 1

----------------------------------------------------------------------------
\* C9: the fragment kind of a lazy call is a function of the kind of the
\* call node's parent: Items under MACRO_ITEMS, SOURCE_FILE and ITEM_LIST,
\* Expr under the statement and expression kinds of the table, Expr without
\* a parent; parse_macro parses the expansion as that kind.
C9_FragmentTable ==
    /\ (op.name = "to_fragment_kind" /\ IsLazy(op.id)) =>
           /\ loc[op.id].parent \in ItemParents => res = "Items"
           /\ loc[op.id].parent \in ExprParents => res = "Expr"
           /\ loc[op.id].parent = NoParent => res = "Expr"
    /\ (op.name = "parse_macro" /\ IsLazy(op.id) /\ IsSome(res)) =>
           /\ loc[op.id].parent \in ItemParents => Unwrap(res).tree.kind = "Items"
           /\ loc[op.id].parent \in ExprParents \cup {NoParent} =>
                  Unwrap(res).tree.kind = "Expr"

\* A call used as a statement was classified Expr.
C9_Witness ==
    /\ op.name = "to_fragment_kind"
    /\ IsLazy(op.id)
    /\ loc[op.id].parent = "EXPR_STMT"
    /\ res = "Expr"

----------------------------------------------------------------------------
\* The output subtree of a call whose argument and definition resolve: what
\* its expander makes of its argument, or the subtree stored on an eager call.
OutputOf(c) == IF IsLazy(c) THEN OwnExpansion(c).tt ELSE eager[c].subtree

\* The output of the call does not parse as the fragment kind inferred for it.
Unparseable(c) ==
    token_tree_to_syntax_node(OutputOf(c), to_fragment_kind(c)) = None

\* The memoized entries that belong to a call id.
EntriesOf(m, c) ==
    <<m.macro_arg[c], m.macro_expand[c], m.parse_macro[c], m.ast_id_map[c]>>

----------------------------------------------------------------------------
\* What the expansion stage answers for a call, read off the database: a is
\* the supplied argument (None for the call's own).
ExpectedExpansion(id, a) ==
    IF ~IsLazy(id)
    THEN IF IsSome(a)
         THEN [tt |-> None,
               err |-> Some("hypothetical macro expansion not implemented for eager macro")]
         ELSE [tt |-> Some(eager[id].subtree), err |-> None]
    ELSE IF a = None /\ ~ArgResolves(id)
         THEN [tt |-> None, err |-> Some("Fail to args in to tt::TokenTree")]
    ELSE IF DefUnresolvable(loc[id].def)
         THEN [tt |-> None, err |-> Some("Fail to find macro definition")]
    ELSE LET arg == IF IsSome(a) THEN a
                    ELSE syntax_node_to_token_tree(Unwrap(loc[id].arg))
             out == TokenExpander_expand(ExpanderOf(loc[id].def), Unwrap(arg).tt)
         IN  IF count(out.tt) > 65536
             THEN [tt |-> None,
                   err |-> Some("Total tokens count exceed limit : count = "
                                \o ToString(count(out.tt)))]
             ELSE [tt |-> Some(out.tt), err |-> out.err]

\* The body of parse_macro_with_arg ran in the last operation: called with
\* an argument, or through parse_macro when its result was not memoized yet.
RanParse ==
    \/ op.name = "parse_macro_with_arg"
    \/ op.name = "parse_macro" /\ <<"macro_expand", op.id>> \in invoked

\* The error message of the expansion it saw.
SeenError ==
    ExpectedExpansion(op.id, IF op.name = "parse_macro_with_arg"
                             THEN syntax_node_to_token_tree(Unwrap(op.hyp))
                             ELSE None).err

\* s lists the enclosing call sites of a call: the call that produced the
\* file the call is in, then the call that produced that call's file, and so
\* on, the last one being in the real file.
IsEnclosingChain(s, id) ==
    /\ \A i \in 1..Len(s) : s[i] = FileOf(IF i = 1 THEN id ELSE s[i - 1])
    /\ FileOf(IF s = <<>> THEN id ELSE s[Len(s)]) = RealFile

----------------------------------------------------------------------------
\* The definition is a builtin function-like or a builtin derive macro.
IsBuiltin(d) == defs[d].kind \in {"BuiltIn", "BuiltInDerive"}

\* C13: for the expander of a builtin function-like or derive macro and
\* every token id, map_id_down returns the id, map_id_up returns the id
\* with the call-site origin, and so map_id_up of map_id_down returns the id.
C13_BuiltinIdentity ==
    (op.name \in {"map_id_down", "map_id_up", "map_id_up_down"} /\ IsBuiltin(op.id)) =>
        /\ op.name = "map_id_down" => res = Unwrap(op.tok)
        /\ op.name = "map_id_up" => res = [id |-> Unwrap(op.tok), origin |-> "Call"]
        /\ op.name = "map_id_up_down" => res.id = Unwrap(op.tok)

\* The id 2 went down and up through a derive expander and came back as 2,
\* from the call site.
C13_Witness ==
    /\ op.name = "map_id_up_down"
    /\ defs[op.id].kind = "BuiltInDerive"
    /\ Unwrap(op.tok) = 2
    /\ res = [id |-> 2, origin |-> "Call"]

----------------------------------------------------------------------------
\* C14: macro_def of a builtin function-like or builtin derive definition
\* returns the expander of the matching variant, carrying the definition's
\* own expander, with the empty token map, whatever else the definition
\* holds; macro_def of a builtin eager definition returns None.
C14_BuiltinResolution ==
    op.name = "macro_def" =>
        /\ defs[op.id].kind = "BuiltIn" =>
               res = Some([expander |-> [tag |-> "Builtin", def |-> op.id],
                           tmap |-> "default"])
        /\ defs[op.id].kind = "BuiltInDerive" =>
               res = Some([expander |-> [tag |-> "BuiltinDerive", def |-> op.id],
                           tmap |-> "default"])
        /\ defs[op.id].kind = "BuiltInEager" => res = None
        /\ defs[op.id].kind \in {"BuiltIn", "BuiltInDerive", "BuiltInEager"} =>
               (~panicked /\ log = <<>>)

\* macro_def resolved a derive definition that has no defining node.
C14_Witness ==
    /\ op.name = "macro_def"
    /\ defs[op.id].kind = "BuiltInDerive"
    /\ ~defs[op.id].ast_id
    /\ IsSome(res)
    /\ Unwrap(res).expander.tag = "BuiltinDerive"

----------------------------------------------------------------------------
\* C15: macro_arg of an eager call returns None in every state of the
\* database; macro_arg of a lazy call returns the token tree and the token
\* map of the call's argument region (one leaf and one map entry per
\* non-trivia token), and None when the region is missing or does not
\* convert.
C15_ArgumentResolution ==
    op.name = "macro_arg" =>
        /\ ~panicked
        /\ ~IsLazy(op.id) => res = None
        /\ (IsLazy(op.id) /\ loc[op.id].arg = None) => res = None
        /\ (IsLazy(op.id) /\ loc[op.id].arg # None /\ ~Unwrap(loc[op.id].arg).conv) =>
               res = None
        /\ (IsLazy(op.id) /\ ArgResolves(op.id)) =>
               /\ res = syntax_node_to_token_tree(Unwrap(loc[op.id].arg))
               /\ IsSome(res)
               /\ Len(Unwrap(res).tt.leaves)
                     = Cardinality({ i \in 1..Len(Unwrap(loc[op.id].arg).toks) :
                                       Unwrap(loc[op.id].arg).toks[i] # Trivia })
               /\ Cardinality(Unwrap(res).tmap) = Len(Unwrap(res).tt.leaves)

\* macro_arg of the eager call returned None after macro_expand of it had
\* returned its subtree.
C15_Witness ==
    /\ op.name = "macro_arg"
    /\ op.id = "E1"
    /\ res = None
    /\ memo.macro_expand["E1"] # Absent
    /\ IsSome(Unwrap(memo.macro_expand["E1"]).tt)

----------------------------------------------------------------------------
\* The source file and the cursor merge_imports was invoked with, and the
\* use item whose tree is under the cursor (0 without one).
MergedFile == Unwrap(op.hyp)

CursorOffset == Unwrap(op.tok)

CursorItem ==
    IF find_node_at_offset(MergedFile, CursorOffset) = None THEN 0
    ELSE Unwrap(find_node_at_offset(MergedFile, CursorOffset))

\* The path of the use tree of item i.
PathOf(i) == MergedFile.items[i].tree.path

\* The nearest use items before and after item i (0 without one).
PrevUse(i) ==
    IF \E j \in 1..(i - 1) : MergedFile.items[j].kind = "USE_ITEM"
    THEN CHOOSE j \in 1..(i - 1) :
            /\ MergedFile.items[j].kind = "USE_ITEM"
            /\ \A k \in (j + 1)..(i - 1) : MergedFile.items[k].kind # "USE_ITEM"
    ELSE 0

NextUse(i) ==
    IF \E j \in (i + 1)..Len(MergedFile.items) : MergedFile.items[j].kind = "USE_ITEM"
    THEN CHOOSE j \in (i + 1)..Len(MergedFile.items) :
            /\ MergedFile.items[j].kind = "USE_ITEM"
            /\ \A k \in (i + 1)..(j - 1) : MergedFile.items[k].kind # "USE_ITEM"
    ELSE 0

\* The length of the longest run of equal leading segments of two paths.
CommonLen(p, q) ==
    CHOOSE n \in 0..Len(p) :
        /\ n <= Len(q)
        /\ \A k \in 1..n : p[k] = q[k]
        /\ (n < Len(p) /\ n < Len(q)) => p[n + 1] # q[n + 1]

\* The trees of items i and j share a leading path prefix.
SharesPrefix(i, j) == j # 0 /\ CommonLen(PathOf(i), PathOf(j)) > 0

\* They share one that is shorter than both paths.
SharesProperPrefix(i, j) ==
    /\ SharesPrefix(i, j)
    /\ CommonLen(PathOf(i), PathOf(j)) < Len(PathOf(i))
    /\ CommonLen(PathOf(i), PathOf(j)) < Len(PathOf(j))

\* The text prefix::{remainder of p, remainder of q}.
MergedChars(p, q) ==
    PathChars(SubSeq(p, 1, CommonLen(p, q))) \o <<":", ":", "{">>
    \o PathChars(SubSeq(p, CommonLen(p, q) + 1, Len(p))) \o <<",", " ">>
    \o PathChars(SubSeq(q, CommonLen(p, q) + 1, Len(q))) \o <<"}">>

\* The text of the file from item k on, with the tree of item i replaced by
\* the merged one and item j left out together with its whitespace.
RECURSIVE ExpectedChars(_, _, _)
ExpectedChars(i, j, k) ==
    IF k > Len(MergedFile.items) THEN <<>>
    ELSE (IF k = j THEN <<>>
          ELSE (IF k = i
                THEN <<"u", "s", "e", " ">> \o MergedChars(PathOf(i), PathOf(j)) \o <<";">>
                ELSE ItemChars(MergedFile.items[k]))
               \o (IF WsLen(MergedFile, k) = 1 THEN <<"\n">> ELSE <<>>))
         \o ExpectedChars(i, j, k + 1)

\* The length of item j with its whitespace when it precedes item i, else 0.
DeletedBefore(i, j) ==
    IF j < i THEN Len(ItemChars(MergedFile.items[j])) + WsLen(MergedFile, j) ELSE 0

\* Where the cursor is when it stays on the same character of item i: the
\* characters of the tree up to the `::` that ends the prefix keep their
\* place in the item, the ones after it follow the inserted brace.
SameCharacter(i, j) ==
    LET at == CursorOffset - TreeStart(MergedFile, i)
        kept == Len(PathChars(SubSeq(PathOf(i), 1, CommonLen(PathOf(i), PathOf(j))))) + 2
    IN  TreeStart(MergedFile, i) - DeletedBefore(i, j) + (IF at <= kept THEN at ELSE at + 1)

----------------------------------------------------------------------------
\* The argument the expansion ran with in the last operation: the supplied
\* one, or None for the call's own.
Override ==
    IF op.name = "macro_expand_with_arg" THEN syntax_node_to_token_tree(Unwrap(op.hyp))
    ELSE None

\* The cases without a subtree, in the order they are tested.
EagerWithOverride == ~IsLazy(op.id) /\ IsSome(Override)

ArgUnresolved == IsLazy(op.id) /\ Override = None /\ ~ArgResolves(op.id)

DefUnresolved == IsLazy(op.id) /\ DefUnresolvable(loc[op.id].def)

\* What the expander of the call makes of the argument the expansion ran
\* with.
ExpanderOutput ==
    TokenExpander_expand(ExpanderOf(loc[op.id].def),
                         IF IsSome(Override) THEN Unwrap(Override).tt
                         ELSE Unwrap(syntax_node_to_token_tree(Unwrap(loc[op.id].arg))).tt)

OverLimit ==
    /\ IsLazy(op.id)
    /\ ~ArgUnresolved
    /\ ~DefUnresolved
    /\ count(ExpanderOutput.tt) > 65536

\* C17: the expansion never returns (None, None). It returns no subtree and
\* a message exactly for an eager call with a supplied argument, a lazy call
\* whose argument does not resolve, a lazy call whose definition does not
\* resolve, and an expander output above the token limit, the first of
\* these that applies giving the message (the limit message replacing the
\* expander's diagnostic); in every other case it returns the subtree, with
\* the expander's diagnostic when there is one.
C17_ExpansionOutcomes ==
    op.name \in {"macro_expand", "macro_expand_with_arg"} =>
        /\ ~(res.tt = None /\ res.err = None)
        /\ res.tt = None <=> (EagerWithOverride \/ ArgUnresolved \/ DefUnresolved \/ OverLimit)
        /\ EagerWithOverride =>
               res.err = Some("hypothetical macro expansion not implemented for eager macro")
        /\ ArgUnresolved => res.err = Some("Fail to args in to tt::TokenTree")
        /\ (DefUnresolved /\ ~ArgUnresolved) => res.err = Some("Fail to find macro definition")
        /\ OverLimit =>
               res.err = Some("Total tokens count exceed limit : count = "
                              \o ToString(count(ExpanderOutput.tt)))
        /\ (~IsLazy(op.id) /\ ~EagerWithOverride) =>
               res = [tt |-> Some(eager[op.id].subtree), err |-> None]
        /\ (IsLazy(op.id) /\ ~ArgUnresolved /\ ~DefUnresolved /\ ~OverLimit) =>
               res = [tt |-> Some(ExpanderOutput.tt), err |-> ExpanderOutput.err]

\* macro_expand answered with the limit message for an output above the
\* limit whose expander had produced a diagnostic of its own.
C17_Witness ==
    /\ op.name = "macro_expand"
    /\ OverLimit
    /\ IsSome(ExpanderOutput.err)
    /\ res.tt = None
    /\ res.err # ExpanderOutput.err

----------------------------------------------------------------------------
====
